---- MODULE Spec2Model ----
(***************************************************************************)
(* HP Lefthand SAN ISCSI driver (cinder/volume/drivers/san/hp_lefthand.py).*)
(* One HpSanISCSIDriver instance issues CLIQ commands to an array through  *)
(* the SSH transport.  Every driver method is one action: the method runs  *)
(* to completion (or to the exception it raises) before the next starts.   *)
(***************************************************************************)
EXTENDS Integers, Sequences, FiniteSets, TLC

VARIABLES
    array,          \* the SAN as the CLIQ interface shows it
    configuration,  \* self.configuration, fixed at construction
    cluster_vip,    \* self.cluster_vip
    device_stats,   \* self.device_stats
    trace,          \* the round trips of the most recent driver call
    last,           \* the most recent driver call and how it ended
    refreshed,      \* what the most recent successful refresh returned
    call,           \* a helper method called on its own: its input and result
    drivers,        \* two instances side by side: the class attribute and
                    \* each instance's own attributes
    registrations,  \* per host name: the createServer commands issued and
                    \* those the array accepted, over all calls so far
    callers         \* two callers inside _get_model_update on one instance:
                    \* where each stands and what it holds in its locals

vars == <<array, configuration, cluster_vip, device_stats, trace, last, refreshed,
          call, drivers, registrations, callers>>

-----------------------------------------------------------------------------
(* Values *)

\* Python's None.
None == "None"

\* A dict with no entries, {}.
EmptyDict == [k \in {} |-> None]

\* dict.get(k): the value, or None when the key is missing.
Get(attrib, k) == IF k \in DOMAIN attrib THEN attrib[k] ELSE None

\* The dict holding the given (key, value) pairs.
DictOf(pairs) ==
    [k \in {p[1] : p \in pairs} |-> (CHOOSE p \in pairs : p[1] = k)[2]]

\* The (prefix + key, value) pairs of an attribute set.
Prefixed(prefix, attrib) == {<<prefix \o k, attrib[k]>> : k \in DOMAIN attrib}

\* Python truthiness of an optional string: None and "" are both false.
Falsy(v) == v = None \/ v = ""

\* node.find(child): the first matching child, as a sequence of length <= 1.
Find(children) == IF children = <<>> THEN <<>> ELSE <<Head(children)>>

-----------------------------------------------------------------------------
(* Bounds and input sets *)

\* Largest volume size, in GB, a caller asks for.
MaxSizeGB == 1

VolNames == {"vol-a", "vol-b"}
SnapNames == {"snap-a"}
Hosts == {"host1"}
Sizes == 0..MaxSizeGB

InitiatorOf(host) == "iqn.1993-08.org.debian:" \o host
ClusterOf(vol) == IF vol = "vol-a" THEN "Cluster01" ELSE "Cluster02"
IqnOf(name) == "iqn.2003-10.com.lefthandnetworks:group01:" \o name

GB == 1073741824
VERSION == "1.1.1"

\* Numeric attribute text is a sequence of characters; the array writes its
\* byte counts in decimal.
DigitChars == <<"0", "1", "2", "3", "4", "5", "6", "7", "8", "9">>

RECURSIVE DecimalText(_)
DecimalText(n) ==
    IF n < 10 THEN <<DigitChars[n + 1]>>
    ELSE Append(DecimalText(n \div 10), DigitChars[(n % 10) + 1])

\* Byte counts past the machine word, as the array writes them: 10 GiB, 9 GiB.
TenGiB == <<"1", "0", "7", "3", "7", "4", "1", "8", "2", "4", "0">>
NineGiB == <<"9", "6", "6", "3", "6", "7", "6", "4", "1", "6">>

\* What getClusterInfo can show: zero or one cluster node, its capacity
\* attributes and its vip children (each vip's attribute set).
ClusterConfigs == {
    << [attrib |-> [spaceTotal |-> TenGiB, unprovisionedSpace |-> NineGiB],
        vip |-> << [attrib |-> [ipAddress |-> "10.0.0.5"]] >>] >>,
    << [attrib |-> [spaceTotal |-> DecimalText(GB),
                    unprovisionedSpace |-> DecimalText(GB - 1)],
        vip |-> << [attrib |-> [ipAddress |-> "10.0.0.6"]] >>] >>,
    << [attrib |-> [spaceTotal |-> DecimalText(GB),
                    unprovisionedSpace |-> <<"l", "o", "t", "s">>],
        vip |-> << [attrib |-> [ipAddress |-> ""]] >>] >>,
    << [attrib |-> [spaceTotal |-> DecimalText(2147483647),
                    unprovisionedSpace |-> DecimalText(0)],
        vip |-> << [attrib |-> [ipAddress |-> "10.0.0.5"]],
                   [attrib |-> [ipAddress |-> "10.0.0.6"]] >>] >>,
    << [attrib |-> [unprovisionedSpace |-> DecimalText(0)],
        vip |-> << [attrib |-> EmptyDict] >>] >>,
    << >> }

\* How the array words its answers: a well-formed envelope, well-formed XML
\* with no response element, a response element with no result attribute, or
\* text that is not XML; "locked", when it answers queries as usual but
\* refuses every command that would change it; and "down", when it refuses
\* every command.
WireModes == {"ok", "noEnvelope", "noResult", "garbage", "locked", "down"}

\* The commands that only read the array.
QueryVerbs == {"getVolumeInfo", "getSnapshotInfo", "getClusterInfo", "getServerInfo"}

\* The wording of the answers together with the exit code of a refusal.
FaultModes == {<<"ok", 1>>, <<"ok", 0>>, <<"noEnvelope", 0>>, <<"noResult", 0>>,
               <<"garbage", 0>>, <<"locked", 1>>, <<"locked", 0>>, <<"down", 1>>}

\* The driver's configuration: the options at their defaults.
Configurations == {
    [san_clustername |-> "Cluster01", san_thin_provision |-> TRUE,
     volume_backend_name |-> None] }

-----------------------------------------------------------------------------
(* The array behind the CLIQ interface *)

Envelope(result, volume, snapshot, cluster) ==
    [wellFormed |-> TRUE,
     response |-> << [attrib |-> [result |-> result], volume |-> volume,
                      snapshot |-> snapshot, cluster |-> cluster] >>]

Succeeded == Envelope("0", <<>>, <<>>, <<>>)
Refused == Envelope("80001010", <<>>, <<>>, <<>>)

StatusNode == [attrib |-> [description |-> "OK", value |-> "2"]]
PermissionNode == [attrib |-> [access |-> "rw", chapName |-> "chapusername"]]

VolumeNode(name) ==
    [attrib |-> [name |-> name, clusterName |-> ClusterOf(name),
                 iscsiIqn |-> IqnOf(name)],
     status |-> <<StatusNode>>, permission |-> <<PermissionNode>>]

SnapshotNode(name) ==
    [attrib |-> [name |-> name, clusterName |-> "Cluster01",
                 iscsiIqn |-> IqnOf(name)],
     status |-> <<StatusNode>>, permission |-> <<PermissionNode>>]

\* The array accepts the command: new array state, exit code 0, result "0".
Accept(arr, out) == [arr |-> arr, exit |-> 0, out |-> out]

\* The array refuses the command: nothing changes, the result code is not
\* "0", and the CLIQ process exits nonzero when the array is set up so.
Refuse(arr) == [arr |-> arr, exit |-> arr.failExit, out |-> Refused]

\* What the array does with one CLIQ command and what it answers.
ArrayExec(arr, cmd) ==
    LET a == cmd.args
        verb == cmd.verb
    IN  IF arr.wire = "noEnvelope"
          THEN [arr |-> arr, exit |-> 0,
                out |-> [wellFormed |-> TRUE, response |-> <<>>]]
        ELSE IF arr.wire = "noResult"
          THEN [arr |-> arr, exit |-> 0,
                out |-> [wellFormed |-> TRUE,
                         response |-> << [attrib |-> EmptyDict, volume |-> <<>>,
                                          snapshot |-> <<>>, cluster |-> <<>>] >>]]
        ELSE IF arr.wire = "garbage"
          THEN [arr |-> arr, exit |-> 0,
                out |-> [wellFormed |-> FALSE, response |-> <<>>]]
        ELSE IF \/ arr.wire = "down"
                \/ arr.wire = "locked" /\ verb \notin QueryVerbs
          THEN Refuse(arr)
        ELSE CASE verb = "getVolumeInfo" ->
                    IF a.volumeName \in arr.volumes
                      THEN Accept(arr, Envelope("0", <<VolumeNode(a.volumeName)>>,
                                                <<>>, <<>>))
                      ELSE Refuse(arr)
               [] verb = "getSnapshotInfo" ->
                    IF a.snapshotName \in arr.snapshots
                      THEN Accept(arr, Envelope("0", <<>>,
                                                <<SnapshotNode(a.snapshotName)>>, <<>>))
                      ELSE Refuse(arr)
               [] verb = "getClusterInfo" ->
                    Accept(arr, Envelope("0", <<>>, <<>>, arr.cluster))
               [] verb = "getServerInfo" ->
                    IF a.serverName \in arr.servers
                      THEN Accept(arr, Succeeded) ELSE Refuse(arr)
               [] verb = "createServer" ->
                    IF a.serverName \notin arr.servers
                      THEN Accept([arr EXCEPT !.servers = @ \cup {a.serverName}],
                                  Succeeded)
                      ELSE Refuse(arr)
               [] verb = "assignVolumeToServer" ->
                    IF a.volumeName \in arr.volumes /\ a.serverName \in arr.servers
                      THEN Accept(arr, Succeeded)
                      ELSE Refuse(arr)
               [] verb = "unassignVolumeToServer" ->
                    IF a.volumeName \in arr.volumes /\ a.serverName \in arr.servers
                      THEN Accept(arr, Succeeded)
                      ELSE Refuse(arr)
               [] verb = "createVolume" ->
                    IF a.volumeName \notin arr.volumes
                      THEN Accept([arr EXCEPT !.volumes = @ \cup {a.volumeName}],
                                  Succeeded)
                      ELSE Refuse(arr)
               [] verb = "modifyVolume" ->
                    IF a.volumeName \in arr.volumes
                      THEN Accept(arr, Succeeded) ELSE Refuse(arr)
               [] verb = "cloneSnapshot" ->
                    IF a.snapshotName \in arr.snapshots
                       /\ a.volumeName \notin arr.volumes
                      THEN Accept([arr EXCEPT !.volumes = @ \cup {a.volumeName}],
                                  Succeeded)
                      ELSE Refuse(arr)
               [] verb = "createSnapshot" ->
                    IF a.volumeName \in arr.volumes
                       /\ a.snapshotName \notin arr.snapshots
                      THEN Accept([arr EXCEPT !.snapshots = @ \cup {a.snapshotName}],
                                  Succeeded)
                      ELSE Refuse(arr)
               [] verb = "deleteVolume" ->
                    IF a.volumeName \in arr.volumes
                      THEN Accept([arr EXCEPT !.volumes = @ \ {a.volumeName}],
                                  Succeeded)
                      ELSE Refuse(arr)
               [] verb = "deleteSnapshot" ->
                    IF a.snapshotName \in arr.snapshots
                      THEN Accept([arr EXCEPT !.snapshots = @ \ {a.snapshotName}],
                                  Succeeded)
                      ELSE Refuse(arr)
               [] OTHER -> Refuse(arr)

-----------------------------------------------------------------------------
(* Transport, validation and parsing *)

VolumeBackendAPIException == "VolumeBackendAPIException"
ProcessExecutionError == "ProcessExecutionError"

Malformed == "Malformed response to CLIQ command"
CommandFailed == "Error running CLIQ command"
UnexpectedVips == "Unexpected number of virtual ips for cluster"

\* The outcome of a step: the array and round trips so far, the exception
\* raised ("" for none) with its message, and the value returned.
Returned(arr, tr, val) ==
    [arr |-> arr, trace |-> tr, exc |-> "", msg |-> "", val |-> val]
Raised(arr, tr, exc, msg) ==
    [arr |-> arr, trace |-> tr, exc |-> exc, msg |-> msg, val |-> None]

\* The element of a one-element set.  The({F(x) : x \in {e}}) is F applied
\* to the value of e: the way one step's outcome is handed to the next.
The(S) == CHOOSE y \in S : TRUE

\* SanDriver._run_ssh: run the command on the array, which reads the
\* arguments by name whatever their order on the line; a nonzero exit
\* raises ProcessExecutionError when check_exit_code is set.
_run_ssh(arr, cmd_list, check_exit_code) ==
    The({[arr |-> r.arr, exit |-> r.exit, out |-> r.out,
          check_exit_code |-> check_exit_code,
          raised |-> check_exit_code /\ r.exit # 0] :
         r \in {ArrayExec(arr, cmd_list)}})

_cliq_run(arr, verb, cliq_args, check_exit_code) ==
    _run_ssh(arr, [verb |-> verb, args |-> cliq_args], check_exit_code)

\* cliq_args.items(): a Python 2 dict yields its items in an order of its
\* own, any enumeration of them without repetition.
Items(cliq_args) ==
    {[i \in 1..Cardinality(DOMAIN cliq_args) |-> <<ks[i], cliq_args[ks[i]]>>] :
       ks \in {f \in [1..Cardinality(DOMAIN cliq_args) -> DOMAIN cliq_args] :
                 \A i, j \in DOMAIN f : f[i] = f[j] => i = j}}

\* cmd_list = [verb], then "%s=%s" % (k, v) appended for each item.
CmdList(verb, items) ==
    <<verb>> \o [i \in 1..Len(items) |-> items[i][1] \o "=" \o items[i][2]]

\* cliq_args['output'] = 'XML'
WithOutput(cliq_args) == [output |-> "XML"] @@ cliq_args

\* XmlOutcome without the result-code check.
XmlOutcomeNoResultCheck(r, check_cliq_result) ==
    IF r.raised THEN <<ProcessExecutionError, "">>
    ELSE IF ~r.out.wellFormed THEN <<"XMLSyntaxError", "">>
    ELSE IF check_cliq_result /\ Find(r.out.response) = <<>>
      THEN <<VolumeBackendAPIException, Malformed>>
    ELSE <<"", "">>

\* XmlOutcome with the response-node check made whatever check_cliq_result.
XmlOutcomeEnvelopeAlways(r, check_cliq_result) ==
    IF r.raised THEN <<ProcessExecutionError, "">>
    ELSE IF ~r.out.wellFormed THEN <<"XMLSyntaxError", "">>
    ELSE IF Find(r.out.response) = <<>>
      THEN <<VolumeBackendAPIException, Malformed>>
    ELSE IF check_cliq_result
            /\ Get(Find(r.out.response)[1].attrib, "result") # "0"
      THEN <<VolumeBackendAPIException, CommandFailed>>
    ELSE <<"", "">>

\* The exception _cliq_run_xml ends with, given what the transport did.
XmlOutcome(r, check_cliq_result) ==
    IF r.raised THEN <<ProcessExecutionError, "">>
    ELSE IF ~r.out.wellFormed THEN <<"XMLSyntaxError", "">>
    ELSE IF check_cliq_result /\ Find(r.out.response) = <<>>
      THEN <<VolumeBackendAPIException, Malformed>>
    ELSE IF check_cliq_result
            /\ Get(Find(r.out.response)[1].attrib, "result") # "0"
      THEN <<VolumeBackendAPIException, CommandFailed>>
    ELSE <<"", "">>

\* The record of one round trip: the command, what the transport handed
\* back (nothing when it raised), and what _cliq_run_xml made of it.
RoundTrip(verb, args, check, r, o) ==
    [verb |-> verb, args |-> args, check |-> check,
     check_exit_code |-> r.check_exit_code, exit |-> r.exit,
     out |-> IF r.raised THEN <<>> ELSE <<r.out>>,
     exc |-> o[1], msg |-> o[2],
     ret |-> IF o[1] = "" THEN <<r.out>> ELSE <<>>]

XmlResult(tr, verb, args, check, r, o) ==
    IF o[1] = ""
      THEN Returned(r.arr, Append(tr, RoundTrip(verb, args, check, r, o)), r.out)
      ELSE Raised(r.arr, Append(tr, RoundTrip(verb, args, check, r, o)),
                  o[1], o[2])

\* _cliq_run_xml leaving check_exit_code of _cliq_run at its default, True.
CliqRunXmlExitChecked(arr, tr, verb, cliq_args, check_cliq_result) ==
    The({XmlResult(tr, verb, WithOutput(cliq_args), check_cliq_result,
                   r, XmlOutcome(r, check_cliq_result)) :
         r \in {_cliq_run(arr, verb, WithOutput(cliq_args), TRUE)}})

_cliq_run_xml(arr, tr, verb, cliq_args, check_cliq_result) ==
    The({XmlResult(tr, verb, WithOutput(cliq_args), check_cliq_result,
                   r, XmlOutcome(r, check_cliq_result)) :
         r \in {_cliq_run(arr, verb, WithOutput(cliq_args), check_cliq_result)}})

_cliq_get_cluster_info(arr, tr, cluster_name) ==
    _cliq_run_xml(arr, tr, "getClusterInfo",
                  [clusterName |-> cluster_name, searchDepth |-> "1",
                   verbose |-> "0"], TRUE)

\* The concatenation of a sequence of sequences.
RECURSIVE Concat(_)
Concat(ss) == IF ss = <<>> THEN <<>> ELSE Head(ss) \o Concat(Tail(ss))

\* tree.findall("response/cluster")
FindAllClusters(tree) ==
    Concat([i \in 1..Len(tree.response) |-> tree.response[i].cluster])

\* tree.findall("response/cluster/vip")
FindAllVips(tree) ==
    Concat([j \in 1..Len(FindAllClusters(tree)) |-> FindAllClusters(tree)[j].vip])

\* tree.findall("response/volume") or tree.findall("response/snapshot")
FindAllEntities(tree, kind) ==
    Concat([i \in 1..Len(tree.response) |->
              IF kind = "volume" THEN tree.response[i].volume
              ELSE tree.response[i].snapshot])

\* SingleVip taking the first of several VIPs.
SingleVipFirst(c, vips) ==
    IF Len(vips) >= 1
      THEN Returned(c.arr, c.trace, Get(vips[1].attrib, "ipAddress"))
      ELSE Raised(c.arr, c.trace, VolumeBackendAPIException, UnexpectedVips)

\* if len(vips) == 1: return vips[0]; otherwise raise
SingleVip(c, vips) ==
    IF Len(vips) = 1
      THEN Returned(c.arr, c.trace, Get(vips[1].attrib, "ipAddress"))
      ELSE Raised(c.arr, c.trace, VolumeBackendAPIException, UnexpectedVips)

ClusterVip(c) == IF c.exc # "" THEN c ELSE SingleVip(c, FindAllVips(c.val))

_cliq_get_cluster_vip(arr, tr, cluster_name) ==
    The({ClusterVip(c) : c \in {_cliq_get_cluster_info(arr, tr, cluster_name)}})

\* Flatten with the permission branch reading the permission node.
FlattenPermissionNode(kind, nodes) ==
    LET node == Find(nodes)
        status_node == Find(node[1].status)
        permission_node == Find(node[1].permission)
    IN  IF node = <<>> THEN [exc |-> "AttributeError", val |-> None]
        ELSE [exc |-> "",
              val |-> DictOf(
                  Prefixed(kind \o ".", node[1].attrib)
                  \cup (IF status_node # <<>>
                          THEN Prefixed("status.", status_node[1].attrib) ELSE {})
                  \cup (IF permission_node # <<>>
                          THEN Prefixed("permission.", permission_node[1].attrib)
                          ELSE {}))]

\* The flattening of an entity node (volume or snapshot): the node's own
\* attributes, the first status child's, and, when a permission child exists,
\* the status child's once more under "permission.".
Flatten(kind, nodes) ==
    LET node == Find(nodes)
        status_node == Find(node[1].status)
        permission_node == Find(node[1].permission)
    IN  IF node = <<>> THEN [exc |-> "AttributeError", val |-> None]
        ELSE IF permission_node # <<>> /\ status_node = <<>>
          THEN [exc |-> "AttributeError", val |-> None]
        ELSE [exc |-> "",
              val |-> DictOf(
                  Prefixed(kind \o ".", node[1].attrib)
                  \cup (IF status_node # <<>>
                          THEN Prefixed("status.", status_node[1].attrib) ELSE {})
                  \cup (IF permission_node # <<>>
                          THEN Prefixed("permission.", status_node[1].attrib)
                          ELSE {}))]

\* EntityInfo putting the instance's VIP among the attributes.
EntityInfoWithVip(x, f) ==
    IF f.exc # "" THEN Raised(x.arr, x.trace, f.exc, "")
    ELSE Returned(x.arr, x.trace, [vip |-> cluster_vip] @@ f.val)

EntityInfo(x, f) ==
    IF f.exc # "" THEN Raised(x.arr, x.trace, f.exc, "")
    ELSE Returned(x.arr, x.trace, f.val)

FlattenResponse(x, kind) ==
    IF x.exc # "" THEN x
    ELSE The({EntityInfo(x, f) :
              f \in {Flatten(kind, FindAllEntities(x.val, kind))}})

_cliq_get_volume_info(arr, tr, volume_name) ==
    The({FlattenResponse(x, "volume") :
         x \in {_cliq_run_xml(arr, tr, "getVolumeInfo",
                              [volumeName |-> volume_name], TRUE)}})

_cliq_get_snapshot_info(arr, tr, snapshot_name) ==
    The({FlattenResponse(x, "snapshot") :
         x \in {_cliq_run_xml(arr, tr, "getSnapshotInfo",
                              [snapshotName |-> snapshot_name], TRUE)}})

-----------------------------------------------------------------------------
(* Driver methods.  Each takes the array and the instance fields it reads  *)
(* and yields the outcome together with the instance fields it leaves.     *)

WithVip(r, vip) == [vip |-> vip] @@ r
WithStats(r, stats) == [stats |-> stats] @@ r
WithVal(r, val) == IF r.exc # "" THEN r ELSE [r EXCEPT !.val = val]

cluster_interface == "1"

\* iscsi_portal = self.cluster_vip + ":3260," + cluster_interface
IscsiPortal(vip) == vip \o ":3260," \o cluster_interface

\* ProviderLocation with logical unit 1.
ProviderLocationLun1(iscsi_portal, iscsi_iqn) ==
    iscsi_portal \o " " \o iscsi_iqn \o " " \o ToString(1)

\* "%s %s %s" % (iscsi_portal, iscsi_iqn, 0)
ProviderLocation(iscsi_portal, iscsi_iqn) ==
    iscsi_portal \o " " \o iscsi_iqn \o " " \o ToString(0)

\* CacheVip that uses the VIP it resolved without storing it.
CacheVipForgets(q, vip) == WithVip(q, vip)

\* self.cluster_vip = self._cliq_get_cluster_vip(cluster_name): the field is
\* assigned only when the query returns.
CacheVip(q, vip) == WithVip(q, IF q.exc = "" THEN q.val ELSE vip)

\* ResolveVip querying the cluster whether or not a VIP is cached.
ResolveVipAlways(arr, tr, vip, cluster_name) ==
    The({CacheVip(q, vip) : q \in {_cliq_get_cluster_vip(arr, tr, cluster_name)}})

\* if not self.cluster_vip: self.cluster_vip = self._cliq_get_cluster_vip(..)
ResolveVip(arr, tr, vip, cluster_name) ==
    IF Falsy(vip)
      THEN The({CacheVip(q, vip) :
                q \in {_cliq_get_cluster_vip(arr, tr, cluster_name)}})
      ELSE WithVip(Returned(arr, tr, vip), vip)

\* The portal and target name, once the VIP is resolved (v.val is the value
\* of self.cluster_vip that line 381 reads); None + str is a TypeError.
Target(v, iscsi_iqn) ==
    IF v.exc # "" THEN v
    ELSE IF v.val = None THEN WithVip(Raised(v.arr, v.trace, "TypeError", ""), v.vip)
    ELSE WithVip(Returned(v.arr, v.trace,
                          [iscsi_portal |-> IscsiPortal(v.val),
                           iscsi_iqn |-> iscsi_iqn]), v.vip)

TargetOfVolume(i, vip) ==
    IF i.exc # "" THEN WithVip(i, vip)
    ELSE IF {"volume.clusterName", "volume.iscsiIqn"} \ DOMAIN i.val # {}
      THEN WithVip(Raised(i.arr, i.trace, "KeyError", ""), vip)
    ELSE The({Target(v, i.val["volume.iscsiIqn"]) :
              v \in {ResolveVip(i.arr, i.trace, vip,
                                i.val["volume.clusterName"])}})

\* The first half of _get_model_update: volume info, VIP, portal.
ResolveTarget(arr, tr, vip, volume_name) ==
    The({TargetOfVolume(i, vip) :
         i \in {_cliq_get_volume_info(arr, tr, volume_name)}})

ModelUpdate(t) ==
    WithVal(t, [provider_location |->
                    ProviderLocation(t.val.iscsi_portal, t.val.iscsi_iqn)])

_get_model_update(arr, tr, vip, volume_name) ==
    The({ModelUpdate(t) : t \in {ResolveTarget(arr, tr, vip, volume_name)}})

IscsiProperties(t) ==
    WithVal(t, [target_portal |-> t.val.iscsi_portal,
                target_iqn |-> t.val.iscsi_iqn, target_lun |-> 0])

\* ISCSIDriver._get_iscsi_properties: the connection descriptor of a volume
\* (target portal, target name, logical-unit number).
_get_iscsi_properties(arr, tr, vip, volume) ==
    The({IscsiProperties(t) : t \in {ResolveTarget(arr, tr, vip, volume)}})

\* CreateSize passing the requested size on as it is.
CreateSizeVerbatim(size) == ToString(size) \o "GB"

\* cliq_args['size'] of create_volume.
CreateSize(size) == IF size = 0 THEN "100MB" ELSE ToString(size) \o "GB"

\* The volume deleted again when the model update failed.
Compensate(m, volume) ==
    IF m.exc = "" THEN m
    ELSE The({WithVip(Raised(d.arr, d.trace, m.exc, m.msg), m.vip) :
              d \in {_cliq_run_xml(m.arr, m.trace, "deleteVolume",
                                   [volumeName |-> volume, prompt |-> "false"],
                                   TRUE)}})

\* ThenModelUpdate undoing the create when the model update fails.
ThenModelUpdateOrUndo(c, vip, volume) ==
    IF c.exc # "" THEN WithVip(c, vip)
    ELSE The({Compensate(m, volume) :
              m \in {_get_model_update(c.arr, c.trace, vip, volume)}})

\* The follow-up of a create or clone command: return self._get_model_update
ThenModelUpdate(c, vip, volume) ==
    IF c.exc # "" THEN WithVip(c, vip)
    ELSE _get_model_update(c.arr, c.trace, vip, volume)

create_volume(arr, vip, cfg, volume, size) ==
    The({ThenModelUpdate(c, vip, volume) :
         c \in {_cliq_run_xml(arr, <<>>, "createVolume",
                  [clusterName |-> cfg.san_clustername,
                   thinProvision |-> IF cfg.san_thin_provision THEN "1" ELSE "0",
                   volumeName |-> volume, size |-> CreateSize(size)], TRUE)}})

extend_volume(arr, vip, volume, new_size) ==
    The({WithVip(WithVal(x, None), vip) :
         x \in {_cliq_run_xml(arr, <<>>, "modifyVolume",
                              [volumeName |-> volume,
                               size |-> ToString(new_size) \o "GB"], TRUE)}})

create_volume_from_snapshot(arr, vip, volume, snapshot) ==
    The({ThenModelUpdate(c, vip, volume) :
         c \in {_cliq_run_xml(arr, <<>>, "cloneSnapshot",
                              [snapshotName |-> snapshot, volumeName |-> volume],
                              TRUE)}})

create_snapshot(arr, vip, snapshot, volume) ==
    The({WithVip(WithVal(x, None), vip) :
         x \in {_cliq_run_xml(arr, <<>>, "createSnapshot",
                              [snapshotName |-> snapshot, volumeName |-> volume,
                               inheritAccess |-> 1], TRUE)}})

\* LOG.error_(message) in the except clause: the logger writes the message
\* and returns; nothing of the driver or the array changes.
LOG_error_(r) == r

\* Absorbed with a bare except clause.
AbsorbedAny(exc) == exc # ""

\* Absorbed with no except clause.
AbsorbedNever(exc) == FALSE

\* except processutils.ProcessExecutionError: log and return
Absorbed(exc) == exc = ProcessExecutionError

\* The delete command, issued when the existence query returned.
ThenDelete(i, vip, verb, cliq_args) ==
    IF Absorbed(i.exc)
      THEN LOG_error_(WithVip(Returned(i.arr, i.trace, None), vip))
    ELSE IF i.exc # "" THEN WithVip(i, vip)
    ELSE The({WithVip(WithVal(d, None), vip) :
              d \in {_cliq_run_xml(i.arr, i.trace, verb, cliq_args, TRUE)}})

delete_volume(arr, vip, volume) ==
    The({ThenDelete(i, vip, "deleteVolume",
                    [volumeName |-> volume, prompt |-> "false"]) :
         i \in {_cliq_get_volume_info(arr, <<>>, volume)}})

delete_snapshot(arr, vip, snapshot) ==
    The({ThenDelete(i, vip, "deleteSnapshot",
                    [snapshotName |-> snapshot, prompt |-> "false"]) :
         i \in {_cliq_get_snapshot_info(arr, <<>>, snapshot)}})

\* NeedsCreate that registers the host on every attach.
NeedsCreateAlways(result) == TRUE

\* NeedsCreate with the comparison inverted.
NeedsCreateInverted(result) == result = "0"

\* if result != '0': of _create_server
NeedsCreate(result) == result # "0"

RegisterServer(out, connector) ==
    IF out.exc # "" THEN out
    ELSE IF Find(out.val.response) = <<>>
      THEN Raised(out.arr, out.trace, "AttributeError", "")
    ELSE IF NeedsCreate(Get(Find(out.val.response)[1].attrib, "result"))
      THEN The({WithVal(c, None) :
                c \in {_cliq_run_xml(out.arr, out.trace, "createServer",
                                     [serverName |-> connector.host,
                                      initiator |-> connector.initiator],
                                     TRUE)}})
    ELSE Returned(out.arr, out.trace, None)

\* _create_server that registers the host without asking the array first.
CreateServerUnasked(arr, tr, connector) ==
    The({WithVal(c, None) :
         c \in {_cliq_run_xml(arr, tr, "createServer",
                              [serverName |-> connector.host,
                               initiator |-> connector.initiator], TRUE)}})

_create_server(arr, tr, connector) ==
    The({RegisterServer(out, connector) :
         out \in {_cliq_run_xml(arr, tr, "getServerInfo",
                                [serverName |-> connector.host], FALSE)}})

ConnectionInfo(p) ==
    WithVal(p, [driver_volume_type |-> "iscsi", data |-> p.val])

DescribeVolume(a, vip, volume) ==
    IF a.exc # "" THEN WithVip(a, vip)
    ELSE The({ConnectionInfo(p) :
              p \in {_get_iscsi_properties(a.arr, a.trace, vip, volume)}})

AssignVolume(s, vip, volume, connector) ==
    IF s.exc # "" THEN WithVip(s, vip)
    ELSE The({DescribeVolume(a, vip, volume) :
              a \in {_cliq_run_xml(s.arr, s.trace, "assignVolumeToServer",
                                   [volumeName |-> volume,
                                    serverName |-> connector.host], TRUE)}})

initialize_connection(arr, vip, volume, connector) ==
    The({AssignVolume(s, vip, volume, connector) :
         s \in {_create_server(arr, <<>>, connector)}})

\* The host removed from the array once the volume is unassigned.
ThenDeleteServer(u, vip, connector) ==
    IF u.exc # "" THEN WithVip(u, vip)
    ELSE The({WithVip(WithVal(d, None), vip) :
              d \in {_cliq_run_xml(u.arr, u.trace, "deleteServer",
                                   [serverName |-> connector.host], TRUE)}})

\* terminate_connection that also deregisters the host.
TerminateAndDeregister(arr, vip, volume, connector) ==
    The({ThenDeleteServer(u, vip, connector) :
         u \in {_cliq_run_xml(arr, <<>>, "unassignVolumeToServer",
                              [volumeName |-> volume,
                               serverName |-> connector.host], TRUE)}})

terminate_connection(arr, vip, volume, connector) ==
    The({WithVip(WithVal(u, None), vip) :
         u \in {_cliq_run_xml(arr, <<>>, "unassignVolumeToServer",
                              [volumeName |-> volume,
                               serverName |-> connector.host], TRUE)}})

\* int(text): the exception it raises, or "" when text is a decimal numeral.
IntError(text) ==
    IF text = None THEN "TypeError"
    ELSE IF text = <<>> \/ \E i \in 1..Len(text) :
                              \A d \in 1..10 : DigitChars[d] # text[i]
      THEN "ValueError"
    ELSE ""

RECURSIVE ParseInt(_)
ParseInt(text) ==
    IF text = <<>> THEN 0
    ELSE ParseInt(SubSeq(text, 1, Len(text) - 1)) * 10
         + ((CHOOSE d \in 1..10 : DigitChars[d] = text[Len(text)]) - 1)

\* One step of the long division of a decimal numeral by d: the quotient's
\* digits so far and the running remainder, after the next digit.
DivStep(p, digit, d) ==
    [q |-> Append(p.q, DigitChars[((p.r * 10 + digit) \div d) + 1]),
     r |-> (p.r * 10 + digit) % d]

\* The long division of a decimal numeral by d (d * 10 within the machine
\* word): Python's integers are unbounded, the numeral is never truncated.
RECURSIVE LongDiv(_, _)
LongDiv(text, d) ==
    IF text = <<>> THEN [q |-> <<>>, r |-> 0]
    ELSE The({DivStep(p, (CHOOSE k \in 1..10 : DigitChars[k] = text[Len(text)]) - 1,
                      d) :
              p \in {LongDiv(SubSeq(text, 1, Len(text) - 1), d)}})

\* CapacityGB dividing by 2^20.
CapacityGBByMiB(text) ==
    ParseInt(LongDiv(LongDiv(text, 2^10).q, 2^10).q)

\* int(text) / GB: floor division of the unbounded integer by 2^30, carried
\* out as two floor divisions by 2^15 (2^15 * 2^15 = GB).
CapacityGB(text) ==
    ParseInt(LongDiv(LongDiv(text, 2^15).q, 2^15).q)

\* The record _update_backend_status builds from the cluster's capacities.
StatsData(cfg, total_capacity, free_capacity) ==
    [volume_backend_name |->
         IF Falsy(cfg.volume_backend_name) THEN "HpSanISCSIDriver"
         ELSE cfg.volume_backend_name,
     driver_version |-> VERSION,
     reserved_percentage |-> 0,
     storage_protocol |-> "iSCSI",
     vendor_name |-> "Hewlett-Packard",
     total_capacity_gb |-> CapacityGB(total_capacity),
     free_capacity_gb |-> CapacityGB(free_capacity)]

\* StoreStats that merges into the previous record, old entries kept.
StoreStatsMerged(stats, data) == stats @@ data

\* self.device_stats = data
StoreStats(stats, data) == data

\* Capacities filling self.device_stats field by field, so that a failure
\* on the free capacity leaves the record without it.
CapacitiesInPlace(x, cfg, stats, total_capacity, free_capacity) ==
    IF IntError(total_capacity) # ""
      THEN WithStats(Raised(x.arr, x.trace, IntError(total_capacity), ""), stats)
    ELSE IF IntError(free_capacity) # ""
      THEN WithStats(Raised(x.arr, x.trace, IntError(free_capacity), ""),
                     [k \in {"volume_backend_name", "driver_version",
                             "reserved_percentage", "storage_protocol",
                             "vendor_name", "total_capacity_gb"} |->
                        StatsData(cfg, total_capacity, total_capacity)[k]])
    ELSE WithStats(Returned(x.arr, x.trace, None),
                   StoreStats(stats, StatsData(cfg, total_capacity, free_capacity)))

Capacities(x, cfg, stats, total_capacity, free_capacity) ==
    IF IntError(total_capacity) # ""
      THEN WithStats(Raised(x.arr, x.trace, IntError(total_capacity), ""), stats)
    ELSE IF IntError(free_capacity) # ""
      THEN WithStats(Raised(x.arr, x.trace, IntError(free_capacity), ""), stats)
    ELSE WithStats(Returned(x.arr, x.trace, None),
                   StoreStats(stats, StatsData(cfg, total_capacity, free_capacity)))

ClusterStats(x, cfg, stats) ==
    IF x.exc # "" THEN WithStats(x, stats)
    ELSE IF Find(FindAllClusters(x.val)) = <<>>
      THEN WithStats(Raised(x.arr, x.trace, "AttributeError", ""), stats)
    ELSE Capacities(x, cfg, stats,
                    Get(FindAllClusters(x.val)[1].attrib, "spaceTotal"),
                    Get(FindAllClusters(x.val)[1].attrib, "unprovisionedSpace"))

_update_backend_status(arr, cfg, stats) ==
    The({ClusterStats(x, cfg, stats) :
         x \in {_cliq_run_xml(arr, <<>>, "getClusterInfo", EmptyDict, TRUE)}})

\* return self.device_stats
CachedStats(stats) == stats

get_volume_stats(arr, cfg, stats, refresh) ==
    IF refresh
      THEN The({WithVal(u, CachedStats(u.stats)) :
                u \in {_update_backend_status(arr, cfg, stats)}})
      ELSE WithStats(Returned(arr, <<>>, CachedStats(stats)), stats)

-----------------------------------------------------------------------------
(* The state machine *)

\* Two instances of the driver class.
Instances == {1, 2}

\* device_stats = {} in the class body: one dict, the class's.
ClassDeviceStats == EmptyDict

Connector(host) == [host |-> host, initiator |-> InitiatorOf(host)]

\* Two callers of one instance's methods.
Callers == {1, 2}

Init ==
    /\ array = [volumes |-> {}, snapshots |-> {}, servers |-> {},
                cluster |-> << [attrib |-> [spaceTotal |-> TenGiB,
                                            unprovisionedSpace |-> NineGiB],
                                vip |-> << [attrib |-> [ipAddress |-> "10.0.0.5"]] >>] >>,
                failExit |-> 1, wire |-> "ok"]
    /\ configuration \in Configurations
    /\ cluster_vip = None
    /\ device_stats = EmptyDict
    /\ trace = <<>>
    /\ last = [op |-> "__init__", args |-> EmptyDict, exc |-> "", msg |-> "",
               ret |-> <<>>]
    /\ refreshed = EmptyDict
    /\ call = [fn |-> "none", n |-> 0]
    /\ drivers = [class_device_stats |-> ClassDeviceStats,
                  of |-> [i \in Instances |->
                            [cluster_vip |-> None, device_stats |-> <<>>]]]
    /\ registrations = [h \in Hosts |-> [issued |-> 0, accepted |-> 0]]
    /\ callers = [frame |-> [c \in Callers |-> [pc |-> "idle"]], vips |-> {}]

\* The call returns or raises: the instance and the array are left as the
\* method left them, and the call is recorded.
Finish(op, args, r) ==
    /\ array' = r.arr
    /\ cluster_vip' = r.vip
    /\ trace' = r.trace
    /\ last' = [op |-> op, args |-> args, exc |-> r.exc, msg |-> r.msg,
                ret |-> IF r.exc = "" THEN <<r.val>> ELSE <<>>]
    /\ UNCHANGED <<configuration, device_stats, refreshed, call,
                   drivers, registrations, callers>>

CreateVolume ==
    \E volume \in VolNames, size \in Sizes :
      \E r \in {create_volume(array, cluster_vip, configuration, volume, size)} :
        Finish("create_volume", [volume |-> volume, size |-> size], r)

ExtendVolume ==
    \E volume \in VolNames, size \in Sizes \ {0} :
      \E r \in {extend_volume(array, cluster_vip, volume, size)} :
        Finish("extend_volume", [volume |-> volume, size |-> size], r)

CreateVolumeFromSnapshot ==
    \E volume \in VolNames, snapshot \in SnapNames :
      \E r \in {create_volume_from_snapshot(array, cluster_vip, volume, snapshot)} :
        Finish("create_volume_from_snapshot",
               [volume |-> volume, snapshot |-> snapshot], r)

CreateSnapshot ==
    \E volume \in VolNames, snapshot \in SnapNames :
      \E r \in {create_snapshot(array, cluster_vip, snapshot, volume)} :
        Finish("create_snapshot", [volume |-> volume, snapshot |-> snapshot], r)

DeleteVolume ==
    \E volume \in VolNames :
      \E r \in {delete_volume(array, cluster_vip, volume)} :
        Finish("delete_volume", [volume |-> volume], r)

DeleteSnapshot ==
    \E snapshot \in SnapNames :
      \E r \in {delete_snapshot(array, cluster_vip, snapshot)} :
        Finish("delete_snapshot", [snapshot |-> snapshot], r)

InitializeConnection ==
    \E volume \in VolNames, host \in Hosts :
      \E r \in {initialize_connection(array, cluster_vip, volume, Connector(host))} :
        Finish("initialize_connection", [volume |-> volume, host |-> host], r)

TerminateConnection ==
    \E volume \in VolNames, host \in Hosts :
      \E r \in {terminate_connection(array, cluster_vip, volume, Connector(host))} :
        Finish("terminate_connection", [volume |-> volume, host |-> host], r)

GetVolumeStats ==
    \E refresh \in BOOLEAN :
      \E r \in {get_volume_stats(array, configuration, device_stats, refresh)} :
            /\ array' = r.arr
            /\ device_stats' = r.stats
            /\ trace' = r.trace
            /\ last' = [op |-> "get_volume_stats", args |-> [refresh |-> refresh],
                        exc |-> r.exc, msg |-> r.msg,
                        ret |-> IF r.exc = "" THEN <<r.val>> ELSE <<>>]
            /\ refreshed' = IF refresh /\ r.exc = "" THEN r.val ELSE refreshed
            /\ UNCHANGED <<configuration, cluster_vip, call, drivers, registrations, callers>>

\* The array's administrator changes the cluster (its VIPs, its capacity).
ArrayReconfigure ==
    \E c \in ClusterConfigs :
        /\ c # array.cluster
        /\ array' = [array EXCEPT !.cluster = c]
        /\ trace' = <<>>
        /\ last' = [op |-> "environment", args |-> EmptyDict, exc |-> "",
                    msg |-> "", ret |-> <<>>]
        /\ UNCHANGED <<configuration, cluster_vip, device_stats, refreshed, call,
                   drivers, registrations, callers>>

\* The array starts answering differently: another wording of its answers,
\* or refusals reported with or without a nonzero exit code.
ArrayFault ==
    \E m \in FaultModes :
        /\ m # <<array.wire, array.failExit>>
        /\ array' = [array EXCEPT !.wire = m[1], !.failExit = m[2]]
        /\ trace' = <<>>
        /\ last' = [op |-> "environment", args |-> EmptyDict, exc |-> "",
                    msg |-> "", ret |-> <<>>]
        /\ UNCHANGED <<configuration, cluster_vip, device_stats, refreshed, call,
                   drivers, registrations, callers>>

Next ==
    \/ CreateVolume
    \/ ExtendVolume
    \/ CreateVolumeFromSnapshot
    \/ CreateSnapshot
    \/ DeleteVolume
    \/ DeleteSnapshot
    \/ InitializeConnection
    \/ TerminateConnection
    \/ GetVolumeStats
    \/ ArrayReconfigure
    \/ ArrayFault

Spec == Init /\ [][Next]_vars

-----------------------------------------------------------------------------
(* The command encoder on its own: _cliq_run and _cliq_run_xml build the    *)
(* command line of one command.                                             *)

\* Commands as the driver methods build them: the verb and the arguments in
\* the order the method stores them.
EncoderInputs == {
    [verb |-> "createVolume",
     args |-> << <<"clusterName", "Cluster01">>, <<"thinProvision", "1">>,
                 <<"volumeName", "vol-a">>, <<"size", "1GB">> >>],
    [verb |-> "createSnapshot",
     args |-> << <<"snapshotName", "snap-a">>, <<"volumeName", "vol-a">>,
                 <<"inheritAccess", "1">> >>],
    [verb |-> "unassignVolumeToServer",
     args |-> << <<"volumeName", "vol-a">>, <<"serverName", "host1">> >>],
    [verb |-> "getServerInfo", args |-> << <<"serverName", "host1">> >>],
    [verb |-> "getClusterInfo", args |-> << >>] }

\* The dict a method fills by storing the pairs one after the other.
Stored(pairs) == DictOf({pairs[i] : i \in 1..Len(pairs)})

EncoderInit ==
    /\ Init

\* _cliq_run(verb, cliq_args): the command line handed to the transport.
EncodeRaw ==
    \E c \in EncoderInputs :
      \E items \in Items(Stored(c.args)) :
        /\ call' = [fn |-> "_cliq_run", verb |-> c.verb, supplied |-> c.args,
                    cmd_list |-> CmdList(c.verb, items)]
        /\ UNCHANGED <<array, configuration, cluster_vip, device_stats, trace,
                       last, refreshed, drivers, registrations, callers>>

\* _cliq_run_xml(verb, cliq_args): output=XML is stored, then _cliq_run.
EncodeXml ==
    \E c \in EncoderInputs :
      \E items \in Items(WithOutput(Stored(c.args))) :
        /\ call' = [fn |-> "_cliq_run_xml", verb |-> c.verb, supplied |-> c.args,
                    cmd_list |-> CmdList(c.verb, items)]
        /\ UNCHANGED <<array, configuration, cluster_vip, device_stats, trace,
                       last, refreshed, drivers, registrations, callers>>

EncoderNext == EncodeRaw \/ EncodeXml

EncoderSpec == EncoderInit /\ [][EncoderNext]_vars

-----------------------------------------------------------------------------
(* The attribute flattener on its own: _cliq_get_volume_info and            *)
(* _cliq_get_snapshot_info flatten the tree a query returned, on an         *)
(* instance that creates volumes and refreshes its stats in between.        *)

StatusNode2 == [attrib |-> [description |-> "Degraded", value |-> "3"]]
PermissionNode2 == [attrib |-> [access |-> "r", chapName |-> "other"]]

\* Entity nodes as a query can return them: with or without attributes, with
\* no, one or two status children and no, one or two permission children.
EntityNodes ==
    {[attrib |-> a, status |-> st, permission |-> p] :
       a \in {[name |-> "vol-a", clusterName |-> "Cluster01",
               iscsiIqn |-> IqnOf("vol-a")], EmptyDict},
       st \in {<<>>, <<StatusNode>>, <<StatusNode, StatusNode2>>},
       p \in {<<>>, <<PermissionNode>>, <<PermissionNode, PermissionNode2>>}}

\* The validated responses to a query of the kind: no entity node, or one.
FlattenerTrees(kind) ==
    {Envelope("0", IF kind = "volume" THEN nodes ELSE <<>>,
              IF kind = "snapshot" THEN nodes ELSE <<>>, <<>>) :
       nodes \in {<<>>} \cup {<<n>> : n \in EntityNodes}}

\* The flattener applied to the tree: what the method returns or raises.
Flattened(fn, kind, tree, r) ==
    /\ call' = [fn |-> fn, n |-> 1 - call.n, kind |-> kind, tree |-> tree,
                exc |-> r.exc, val |-> r.val]
    /\ UNCHANGED <<array, configuration, cluster_vip, device_stats, trace, last,
                   refreshed, drivers, registrations, callers>>

FlattenVolume ==
    \E tree \in FlattenerTrees("volume") :
      \E r \in {FlattenResponse(Returned(array, <<>>, tree), "volume")} :
        Flattened("_cliq_get_volume_info", "volume", tree, r)

FlattenSnapshot ==
    \E tree \in FlattenerTrees("snapshot") :
      \E r \in {FlattenResponse(Returned(array, <<>>, tree), "snapshot")} :
        Flattened("_cliq_get_snapshot_info", "snapshot", tree, r)

FlattenerNext ==
    \/ FlattenVolume
    \/ FlattenSnapshot
    \/ CreateVolume
    \/ GetVolumeStats

FlattenerSpec == Init /\ [][FlattenerNext]_vars

-----------------------------------------------------------------------------
(* Two instances of the driver against one array.  Each method runs on one  *)
(* instance, on that instance's attributes.                                 *)

\* self.device_stats as instance i reads it: its own attribute when it has
\* one, the class attribute otherwise.
SelfDeviceStats(d, i) ==
    IF d.of[i].device_stats = <<>> THEN d.class_device_stats
    ELSE d.of[i].device_stats[1]

\* The assignment made on the class, HpSanISCSIDriver.device_stats = data.
SetClassDeviceStats(d, i, data) == [d EXCEPT !.class_device_stats = data]

\* self.device_stats = data on instance i: the assignment binds an attribute
\* of the instance and leaves the class attribute as it is.
SetDeviceStats(d, i, data) == [d EXCEPT !.of[i].device_stats = <<data>>]

\* The clusters the administrator switches the array between: one VIP each.
IsolationClusters ==
    {c \in ClusterConfigs : /\ c # <<>>
                            /\ Len(c[1].vip) = 1
                            /\ ~Falsy(Get(c[1].vip[1].attrib, "ipAddress"))}

\* A method has run on instance i and returned or raised.
Ran(i, fn, r) ==
    /\ array' = r.arr
    /\ drivers' = [drivers EXCEPT !.of[i].cluster_vip = r.vip]
    /\ call' = [fn |-> fn, n |-> 1 - call.n, self |-> i, ret |-> <<>>]
    /\ UNCHANGED <<configuration, cluster_vip, device_stats, trace, last,
                   refreshed, registrations, callers>>

OnCreateVolume ==
    \E i \in Instances, volume \in VolNames, size \in Sizes :
      \E r \in {create_volume(array, drivers.of[i].cluster_vip, configuration,
                               volume, size)} :
        Ran(i, "create_volume", r)

OnExtendVolume ==
    \E i \in Instances, volume \in VolNames, size \in Sizes \ {0} :
      \E r \in {extend_volume(array, drivers.of[i].cluster_vip, volume, size)} :
        Ran(i, "extend_volume", r)

OnCreateVolumeFromSnapshot ==
    \E i \in Instances, volume \in VolNames, snapshot \in SnapNames :
      \E r \in {create_volume_from_snapshot(array, drivers.of[i].cluster_vip,
                                             volume, snapshot)} :
        Ran(i, "create_volume_from_snapshot", r)

OnCreateSnapshot ==
    \E i \in Instances, volume \in VolNames, snapshot \in SnapNames :
      \E r \in {create_snapshot(array, drivers.of[i].cluster_vip, snapshot,
                                 volume)} :
        Ran(i, "create_snapshot", r)

OnDeleteVolume ==
    \E i \in Instances, volume \in VolNames :
      \E r \in {delete_volume(array, drivers.of[i].cluster_vip, volume)} :
        Ran(i, "delete_volume", r)

OnDeleteSnapshot ==
    \E i \in Instances, snapshot \in SnapNames :
      \E r \in {delete_snapshot(array, drivers.of[i].cluster_vip, snapshot)} :
        Ran(i, "delete_snapshot", r)

OnInitializeConnection ==
    \E i \in Instances, volume \in VolNames, host \in Hosts :
      \E r \in {initialize_connection(array, drivers.of[i].cluster_vip, volume,
                                       Connector(host))} :
        Ran(i, "initialize_connection", r)

OnTerminateConnection ==
    \E i \in Instances, volume \in VolNames, host \in Hosts :
      \E r \in {terminate_connection(array, drivers.of[i].cluster_vip, volume,
                                      Connector(host))} :
        Ran(i, "terminate_connection", r)

OnGetVolumeStats ==
    \E i \in Instances, refresh \in BOOLEAN :
      \E r \in {get_volume_stats(array, configuration,
                                  SelfDeviceStats(drivers, i), refresh)} :
        /\ array' = r.arr
        /\ drivers' = IF refresh /\ r.exc = ""
                        THEN SetDeviceStats(drivers, i, r.stats)
                        ELSE drivers
        /\ call' = [fn |-> "get_volume_stats", n |-> 1 - call.n, self |-> i,
                    ret |-> IF r.exc = "" THEN <<r.val>> ELSE <<>>]
        /\ UNCHANGED <<configuration, cluster_vip, device_stats, trace, last,
                       refreshed, registrations, callers>>

\* The administrator moves the array to another cluster set-up.
ClusterChange ==
    \E c \in IsolationClusters :
        /\ c # array.cluster
        /\ array' = [array EXCEPT !.cluster = c]
        /\ UNCHANGED <<configuration, cluster_vip, device_stats, trace, last,
                       refreshed, call, drivers, registrations, callers>>

IsolationNext ==
    \/ OnCreateVolume
    \/ OnExtendVolume
    \/ OnCreateVolumeFromSnapshot
    \/ OnCreateSnapshot
    \/ OnDeleteVolume
    \/ OnDeleteSnapshot
    \/ OnInitializeConnection
    \/ OnTerminateConnection
    \/ OnGetVolumeStats
    \/ ClusterChange

IsolationSpec == Init /\ [][IsolationNext]_vars

-----------------------------------------------------------------------------
(* Attach and detach calls made one at a time against an array that answers *)
(* its queries, with the createServer commands counted per host name.       *)

\* Most createServer commands counted for one host name.
MaxCreateServer == 2

\* The host's counts after a call that made the round trips tr.
Counted(reg, tr, host) ==
    LET CreateServers == {i \in 1..Len(tr) : /\ tr[i].verb = "createServer"
                                             /\ tr[i].args.serverName = host}
    IN  [issued |-> reg.issued + Cardinality(CreateServers),
         accepted |-> reg.accepted
                        + Cardinality({i \in CreateServers : tr[i].exc = ""})]

AttachInitializeConnection ==
    \E volume \in VolNames, host \in Hosts :
      /\ registrations[host].issued < MaxCreateServer
      /\ \E r \in {initialize_connection(array, cluster_vip, volume, Connector(host))} :
            /\ array' = r.arr
            /\ cluster_vip' = r.vip
            /\ trace' = r.trace
            /\ last' = [op |-> "initialize_connection",
                        args |-> [volume |-> volume, host |-> host],
                        exc |-> r.exc, msg |-> r.msg,
                        ret |-> IF r.exc = "" THEN <<r.val>> ELSE <<>>]
            /\ registrations' = [registrations EXCEPT
                                   ![host] = Counted(@, r.trace, host)]
            /\ UNCHANGED <<configuration, device_stats, refreshed, call, drivers,
                           callers>>

\* The array is locked against changes, or unlocked again.  In these modes
\* it answers getServerInfo with result "0" for every host it has registered.
ArrayLock ==
    \E m \in {f \in FaultModes : f[1] \in {"ok", "locked"}} :
        /\ m # <<array.wire, array.failExit>>
        /\ array' = [array EXCEPT !.wire = m[1], !.failExit = m[2]]
        /\ trace' = <<>>
        /\ last' = [op |-> "environment", args |-> EmptyDict, exc |-> "",
                    msg |-> "", ret |-> <<>>]
        /\ UNCHANGED <<configuration, cluster_vip, device_stats, refreshed, call,
                       drivers, registrations, callers>>

AttachNext ==
    \/ AttachInitializeConnection
    \/ TerminateConnection
    \/ CreateVolume
    \/ ArrayLock

AttachSpec == Init /\ [][AttachNext]_vars

-----------------------------------------------------------------------------
(* Two callers inside _get_model_update on one instance, with no lock: each *)
(* statement of the method is a step of its caller, and the steps of the   *)
(* two callers and the administrator's changes interleave freely.           *)

\* The instance is constructed against an array that already holds volumes.
RaceInit ==
    /\ array = [volumes |-> VolNames, snapshots |-> {}, servers |-> {},
                cluster |-> << [attrib |-> [spaceTotal |-> TenGiB,
                                            unprovisionedSpace |-> NineGiB],
                                vip |-> << [attrib |-> [ipAddress |-> "10.0.0.5"]] >>] >>,
                failExit |-> 1, wire |-> "ok"]
    /\ configuration \in Configurations
    /\ cluster_vip = None
    /\ device_stats = EmptyDict
    /\ trace = <<>>
    /\ last = [op |-> "__init__", args |-> EmptyDict, exc |-> "", msg |-> "",
               ret |-> <<>>]
    /\ refreshed = EmptyDict
    /\ call = [fn |-> "none", n |-> 0]
    /\ drivers = [class_device_stats |-> ClassDeviceStats,
                  of |-> [i \in Instances |->
                            [cluster_vip |-> None, device_stats |-> <<>>]]]
    /\ registrations = [h \in Hosts |-> [issued |-> 0, accepted |-> 0]]
    /\ callers = [frame |-> [c \in Callers |-> [pc |-> "idle"]], vips |-> {}]

\* Caller c moves to frame f; vips are the VIPs a cluster query has returned.
Step(c, f, vips) ==
    /\ callers' = [frame |-> [callers.frame EXCEPT ![c] = f], vips |-> vips]
    /\ UNCHANGED <<configuration, device_stats, trace, last, refreshed, call,
                   drivers, registrations>>

\* The caller's frame after lines 372-374.
VolumeInfoFrame(volume_name, i) ==
    IF i.exc # "" THEN [pc |-> "raised", volume |-> volume_name, exc |-> i.exc]
    ELSE IF {"volume.clusterName", "volume.iscsiIqn"} \ DOMAIN i.val # {}
      THEN [pc |-> "raised", volume |-> volume_name, exc |-> "KeyError"]
    ELSE [pc |-> "test", volume |-> volume_name,
          cluster_name |-> i.val["volume.clusterName"],
          iscsi_iqn |-> i.val["volume.iscsiIqn"]]

\* Lines 372-374: the call starts and reads the volume's cluster and name.
EnterModelUpdate ==
    \E c \in Callers, volume_name \in VolNames :
      /\ callers.frame[c].pc \in {"idle", "raised", "returned"}
      /\ \E i \in {_cliq_get_volume_info(array, <<>>, volume_name)} :
            /\ array' = i.arr
            /\ cluster_vip' = cluster_vip
            /\ Step(c, VolumeInfoFrame(volume_name, i), callers.vips)

\* Line 379: if not self.cluster_vip
TestCache ==
    \E c \in Callers :
      /\ callers.frame[c].pc = "test"
      /\ UNCHANGED <<array, cluster_vip>>
      /\ Step(c, [callers.frame[c] EXCEPT
                    !.pc = IF Falsy(cluster_vip) THEN "query" ELSE "portal"],
              callers.vips)

\* The caller's frame once the cluster query has returned or raised.
QueryFrame(f, q) ==
    IF q.exc # "" THEN [pc |-> "raised", volume |-> f.volume, exc |-> q.exc]
    ELSE [pc |-> "assign", volume |-> f.volume, iscsi_iqn |-> f.iscsi_iqn,
          vip |-> q.val]

\* Line 380, right-hand side: self._cliq_get_cluster_vip(cluster_name)
QueryVip ==
    \E c \in Callers :
      /\ callers.frame[c].pc = "query"
      /\ \E q \in {_cliq_get_cluster_vip(array, <<>>,
                                          callers.frame[c].cluster_name)} :
            /\ array' = q.arr
            /\ cluster_vip' = cluster_vip
            /\ Step(c, QueryFrame(callers.frame[c], q),
                    IF q.exc = "" THEN callers.vips \cup {q.val}
                    ELSE callers.vips)

\* Line 380, the assignment: self.cluster_vip = <the value returned>
AssignVip ==
    \E c \in Callers :
      /\ callers.frame[c].pc = "assign"
      /\ array' = array
      /\ cluster_vip' = callers.frame[c].vip
      /\ Step(c, [pc |-> "portal", volume |-> callers.frame[c].volume,
                  iscsi_iqn |-> callers.frame[c].iscsi_iqn], callers.vips)

\* The caller's frame once the method has returned or raised.
ReturnFrame(f, vip, m) ==
    IF m.exc # "" THEN [pc |-> "raised", volume |-> f.volume, exc |-> m.exc]
    ELSE [pc |-> "returned", volume |-> f.volume, vip |-> vip, ret |-> m.val]

\* Lines 381-390: the portal from self.cluster_vip as it is now, and the
\* model update returned.
BuildModelUpdate ==
    \E c \in Callers :
      /\ callers.frame[c].pc = "portal"
      /\ UNCHANGED <<array, cluster_vip>>
      /\ \E m \in {ModelUpdate(Target(WithVip(Returned(array, <<>>, cluster_vip),
                                              cluster_vip),
                                      callers.frame[c].iscsi_iqn))} :
            Step(c, ReturnFrame(callers.frame[c], cluster_vip, m), callers.vips)

\* The administrator changes the cluster while calls are in progress.
RaceReconfigure ==
    \E c \in ClusterConfigs :
        /\ c # array.cluster
        /\ array' = [array EXCEPT !.cluster = c]
        /\ UNCHANGED <<configuration, cluster_vip, device_stats, trace, last,
                       refreshed, call, drivers, registrations, callers>>

RaceNext ==
    \/ EnterModelUpdate
    \/ TestCache
    \/ QueryVip
    \/ AssignVip
    \/ BuildModelUpdate
    \/ RaceReconfigure

RaceSpec == RaceInit /\ [][RaceNext]_vars

-----------------------------------------------------------------------------
(* The volume actions of the API (cinder/api/contrib/volume_actions.py):    *)
(* VolumeActionsController._attach and ._extend, each called on its own     *)
(* with a request body.                                                      *)

\* The dicts holding the key with one of the values, or not holding it.
Optional(k, vals) == {EmptyDict} \cup {k :> v : v \in vals}

\* The bodies of os-attach requests: each key present or not, a target
\* given as a JSON null, an empty string or a name.
AttachBodies ==
    {"os-attach" :> (i @@ h @@ p @@ m) :
       i \in Optional("instance_uuid", {None, "", "uuid-1"}),
       h \in Optional("host_name", {None, "", "host1"}),
       p \in Optional("mountpoint", {"/dev/vdb"}),
       m \in Optional("mode", {"rw", "ro", "rx"})}

\* The new_size values of os-extend requests, each a JSON value with its
\* Python type: 0, 2, "2", "10", "", "abc", "2.5", 2.0, 2.5, null.  The text
\* of a string is a sequence of characters.
NewSizes ==
    {[type |-> "int", v |-> 0], [type |-> "int", v |-> 2]}
    \cup {[type |-> "unicode", text |-> t] :
            t \in {<<"2">>, <<"1", "0">>, <<>>, <<"a", "b", "c">>,
                   <<"2", ".", "5">>}}
    \cup {[type |-> "float", whole |-> 2, tenths |-> d] : d \in {0, 5}}
    \cup {[type |-> "NoneType"]}

ExtendBodies ==
    {"os-extend" :> e : e \in Optional("new_size", NewSizes)}

\* self.volume_api.attach(context, volume, instance_uuid, host_name,
\*                        mountpoint, mode): the call made.
volume_api_attach(volume, instance_uuid, host_name, mountpoint, mode) ==
    [method |-> "attach", volume |-> volume, instance_uuid |-> instance_uuid,
     host_name |-> host_name, mountpoint |-> mountpoint, mode |-> mode]

\* self.volume_api.extend(context, volume, size): the call made.
volume_api_extend(volume, size) ==
    [method |-> "extend", volume |-> volume, size |-> size]

\* raise webob.exc.HTTPBadRequest(explanation=msg)
HTTPBadRequest(msg) ==
    [exc |-> "HTTPBadRequest", status |-> 400, msg |-> msg, api |-> <<>>]

\* An exception of Python's own leaves the handler.
Escapes(exc) == [exc |-> exc, status |-> 0, msg |-> "", api |-> <<>>]

\* return webob.Response(status_int=202), after the call of the volume API.
Accepted(api_call) == [exc |-> "", status |-> 202, msg |-> "", api |-> <<api_call>>]

NotAnInteger == "New volume size must be specified as an integer."

\* VolumeActionsController._attach(req, id, body); volume is what
\* self.volume_api.get(context, id) returns.
_attach(id, body) ==
    LET a == body["os-attach"]
        volume == [id |-> id]
        instance_uuid == IF "instance_uuid" \in DOMAIN a
                           THEN a["instance_uuid"] ELSE None
        host_name == IF "host_name" \in DOMAIN a THEN a["host_name"] ELSE None
        mode == IF "mode" \in DOMAIN a THEN a["mode"] ELSE "rw"
    IN  IF "mountpoint" \notin DOMAIN a THEN Escapes("KeyError")
        ELSE IF ~Falsy(instance_uuid) /\ ~Falsy(host_name)
          THEN HTTPBadRequest("Invalid request to attach volume to an instance "
                              \o instance_uuid \o " and a host " \o host_name
                              \o " simultaneously")
        ELSE IF instance_uuid = None /\ host_name = None
          THEN HTTPBadRequest("Invalid request to attach volume to an invalid target")
        ELSE IF mode \notin {"rw", "ro"}
          THEN HTTPBadRequest("Invalid request to attach volume with an invalid "
                              \o "mode. Attaching mode should be 'rw' or 'ro'")
        ELSE Accepted(volume_api_attach(volume, instance_uuid, host_name,
                                        a["mountpoint"], mode))

\* int(x): the exception it raises, or "" when it returns.  A float is
\* truncated, a string must be a decimal numeral, None has no integer.
IntOf(x) ==
    CASE x.type = "int" -> ""
      [] x.type = "float" -> ""
      [] x.type = "unicode" -> IntError(x.text)
      [] x.type = "NoneType" -> "TypeError"

\* VolumeActionsController._extend(req, id, body)
_extend(id, body) ==
    LET e == body["os-extend"]
        volume == [id |-> id]
    IN  IF "new_size" \notin DOMAIN e THEN HTTPBadRequest(NotAnInteger)
        ELSE IF IntOf(e["new_size"]) = "ValueError"
          THEN HTTPBadRequest(NotAnInteger)
        ELSE IF IntOf(e["new_size"]) # "" THEN Escapes(IntOf(e["new_size"]))
        ELSE Accepted(volume_api_extend(volume, e["new_size"]))

\* The handler has answered the request.
Answered(fn, id, body, r) ==
    /\ call' = [fn |-> fn, n |-> 1 - call.n, id |-> id, body |-> body,
                exc |-> r.exc, status |-> r.status, msg |-> r.msg,
                api |-> r.api]
    /\ UNCHANGED <<array, configuration, cluster_vip, device_stats, trace, last,
                   refreshed, drivers, registrations, callers>>

OsAttach ==
    \E id \in VolNames, body \in AttachBodies :
      \E r \in {_attach(id, body)} : Answered("_attach", id, body, r)

OsExtend ==
    \E id \in VolNames, body \in ExtendBodies :
      \E r \in {_extend(id, body)} : Answered("_extend", id, body, r)

DispatcherNext == OsAttach \/ OsExtend

DispatcherSpec == Init /\ [][DispatcherNext]_vars

-----------------------------------------------------------------------------
(* Properties *)

ModelUpdateOps == {"create_volume", "create_volume_from_snapshot"}
DeleteOps == {"delete_volume", "delete_snapshot"}
DeleteVerbs == {"deleteVolume", "deleteSnapshot"}

\* The round trips of tr that are getClusterInfo queries made to resolve the
\* VIP (the stats refresh queries the cluster without a clusterName).
VipQueries(tr) ==
    {i \in 1..Len(tr) : tr[i].verb = "getClusterInfo"
                        /\ "clusterName" \in DOMAIN tr[i].args}

Verbs(tr) == [i \in 1..Len(tr) |-> tr[i].verb]

\* C1: when the existence query of delete_volume / delete_snapshot fails with
\* a process-execution error, the delete returns normally and issues no
\* deleteVolume / deleteSnapshot; and of two deletes of the same object in a
\* row, against an array that reports absence as an execution failure, both
\* return normally and the second issues no delete command.
C1_DeleteAbsorbsExecutionError ==
    [][/\ (last'.op \in DeleteOps /\ trace'[1].exc = ProcessExecutionError)
            => /\ last'.exc = ""
               /\ \A i \in 1..Len(trace') : trace'[i].verb \notin DeleteVerbs
       /\ (/\ last.op \in DeleteOps
           /\ last'.op = last.op
           /\ last'.args = last.args
           /\ array.wire = "ok" /\ array.failExit = 1)
            => /\ last.exc = "" /\ last'.exc = ""
               /\ Len(trace') = 1
               /\ trace'[1].exc = ProcessExecutionError]_vars

C1_Witness ==
    /\ last.op = "delete_volume"
    /\ last.exc = ""
    /\ Len(trace) = 1
    /\ trace[1].verb = "getVolumeInfo"
    /\ trace[1].exc = ProcessExecutionError

\* C2: once the VIP cache holds a value (whatever string the array gave,
\* the empty one included), no later call queries the cluster for the VIP
\* and the cached value never changes.
C2_VipNeverRequeried ==
    [][cluster_vip # None
         => /\ cluster_vip' = cluster_vip
            /\ VipQueries(trace') = {}]_vars

\* C3: a response whose response node has a result other than "0" makes
\* _cliq_run_xml raise the command-failed VolumeBackendAPIException when
\* check_cliq_result is set, and is returned as the parsed tree when it is not.
C3_ResultValidation ==
    \A i \in 1..Len(trace) :
        (/\ trace[i].out # <<>>
         /\ trace[i].out[1].wellFormed
         /\ trace[i].out[1].response # <<>>
         /\ Get(trace[i].out[1].response[1].attrib, "result") # "0")
          => IF trace[i].check
               THEN /\ trace[i].exc = VolumeBackendAPIException
                    /\ trace[i].msg = CommandFailed
                    /\ trace[i].ret = <<>>
               ELSE /\ trace[i].exc = ""
                    /\ trace[i].ret = trace[i].out

C3_Witness ==
    /\ Len(trace) = 3
    /\ ~trace[1].check /\ trace[1].ret # <<>>
    /\ Get(trace[1].ret[1].response[1].attrib, "result") # "0"
    /\ trace[3].check /\ trace[3].out # <<>>
    /\ trace[3].exc = VolumeBackendAPIException /\ trace[3].msg = CommandFailed

NoEnvelope(e) ==
    e.out # <<>> /\ e.out[1].wellFormed /\ e.out[1].response = <<>>

\* C4 (as stated): a well-formed response with no response element makes
\* _cliq_run_xml raise the malformed-response VolumeBackendAPIException
\* whether or not check_cliq_result is set.
C4_MalformedRegardless ==
    \A i \in 1..Len(trace) :
        NoEnvelope(trace[i])
          => /\ trace[i].exc = VolumeBackendAPIException
             /\ trace[i].msg = Malformed

\* C4 (amended): a well-formed response with no response element makes
\* _cliq_run_xml raise the malformed-response VolumeBackendAPIException when
\* check_cliq_result is set; when it is not set (getServerInfo) the tree is
\* returned, and initialize_connection then ends with an AttributeError
\* without issuing another command.
C4_MalformedWhenChecked ==
    \A i \in 1..Len(trace) :
        NoEnvelope(trace[i])
          => IF trace[i].check
               THEN /\ trace[i].exc = VolumeBackendAPIException
                    /\ trace[i].msg = Malformed
               ELSE /\ trace[i].exc = ""
                    /\ trace[i].ret = trace[i].out
                    /\ trace[i].verb = "getServerInfo"
                    /\ last.op = "initialize_connection"
                    /\ last.exc = "AttributeError"
                    /\ Len(trace) = i

C4_Witness ==
    /\ last.op = "initialize_connection"
    /\ Len(trace) = 1
    /\ NoEnvelope(trace[1])
    /\ ~trace[1].check
    /\ last.exc = "AttributeError"

\* The VIP queries of tr that returned a tree with other than one vip element.
BadVipCounts(tr) ==
    {i \in VipQueries(tr) : tr[i].ret # <<>> /\ Len(FindAllVips(tr[i].ret[1])) # 1}

\* The calls that resolve the VIP got as far as the resolution.
ReachedResolution(l, tr) ==
    /\ l.op \in ModelUpdateOps \cup {"initialize_connection"}
    /\ \E i \in 1..Len(tr) : tr[i].verb = "getVolumeInfo" /\ tr[i].exc = ""

\* C5: a cluster-info answer with zero or several vip elements makes the VIP
\* resolution, and the call that asked for it, fail with the
\* unexpected-VIP-count VolumeBackendAPIException and leaves the VIP cache
\* empty; and a resolution that finds the cache empty queries the cluster.
C5_VipCountFailure ==
    [][/\ BadVipCounts(trace') # {}
            => /\ last'.exc = VolumeBackendAPIException
               /\ last'.msg = UnexpectedVips
               /\ cluster_vip' = cluster_vip
               /\ Falsy(cluster_vip')
       /\ (Falsy(cluster_vip) /\ ReachedResolution(last', trace'))
            => VipQueries(trace') # {}]_vars

C5_Witness ==
    /\ BadVipCounts(trace) # {}
    /\ \E i \in BadVipCounts(trace) : Len(FindAllVips(trace[i].ret[1])) = 2
    /\ last.msg = UnexpectedVips
    /\ Falsy(cluster_vip)

\* C6: every model update that succeeds returns provider_location
\* "<VIP>:3260,1 <iscsiIqn> 0", where VIP is the cached VIP, for every volume
\* (whatever its clusterName) and every VIP; a VIP already cached is used
\* as it is.
C6_DescriptorComposition ==
    [][(last'.op \in ModelUpdateOps /\ last'.exc = "")
         => /\ last'.ret[1] =
                 [provider_location |->
                      cluster_vip' \o ":3260,1" \o " "
                      \o IqnOf(last'.args.volume) \o " " \o "0"]
            /\ ~Falsy(cluster_vip)
                 => cluster_vip' = cluster_vip /\ VipQueries(trace') = {}]_vars

C6_Witness ==
    /\ last.op = "create_volume"
    /\ last.exc = ""
    /\ last.args.volume = "vol-b"
    /\ "vol-a" \in array.volumes
    /\ VipQueries(trace) = {}
    /\ last.ret[1].provider_location =
           "10.0.0.5:3260,1 iqn.2003-10.com.lefthandnetworks:group01:vol-b 0"

\* The array is in a state to attach the volume: it answers in well-formed
\* envelopes, holds the volume, and shows one VIP unless one is cached.
Attachable(volume) ==
    /\ array.wire = "ok"
    /\ volume \in array.volumes
    /\ \/ ~Falsy(cluster_vip)
       \/ /\ Len(array.cluster) = 1
          /\ Len(array.cluster[1].vip) = 1
          /\ "ipAddress" \in DOMAIN array.cluster[1].vip[1].attrib

\* C7: initialize_connection for a volume the array can attach succeeds, and
\* run a second time in succession for the same volume and host it succeeds
\* again and returns the same connection descriptor.
C7_AttachIdempotent ==
    [][/\ (last'.op = "initialize_connection" /\ Attachable(last'.args.volume))
            => last'.exc = ""
       /\ (/\ last.op = "initialize_connection"
           /\ last.exc = ""
           /\ last'.op = "initialize_connection"
           /\ last'.args = last.args)
            => /\ last'.exc = ""
               /\ last'.ret = last.ret]_vars

C7_Witness ==
    /\ last.op = "initialize_connection"
    /\ last.exc = ""
    /\ Verbs(trace) = <<"getServerInfo", "assignVolumeToServer", "getVolumeInfo">>
    /\ last.ret[1].data.target_lun = 0

\* C8: initialize_connection issues getServerInfo first, unvalidated; it
\* issues createServer, with the host name and initiator, exactly when that
\* answer's result code is not "0"; assignVolumeToServer comes after these
\* and only when none of them raised.
C8_AttachOrdering ==
    last.op = "initialize_connection"
      => /\ Len(trace) >= 1
         /\ trace[1].verb = "getServerInfo"
         /\ ~trace[1].check
         /\ \A i \in 2..Len(trace) : trace[i].verb # "getServerInfo"
         /\ \A i \in 1..Len(trace) :
               trace[i].verb = "createServer"
                 => /\ i = 2
                    /\ trace[i].args.serverName = last.args.host
                    /\ trace[i].args.initiator = InitiatorOf(last.args.host)
         /\ (trace[1].ret # <<>> /\ trace[1].ret[1].response # <<>>)
              => ((Len(trace) >= 2 /\ trace[2].verb = "createServer")
                    <=> Get(trace[1].ret[1].response[1].attrib, "result") # "0")
         /\ \A i \in 1..Len(trace) :
               trace[i].verb = "assignVolumeToServer"
                 => /\ i > 1
                    /\ \A j \in 1..(i - 1) : trace[j].exc = ""
                    /\ trace[1].ret[1].response # <<>>

C8_Witness ==
    /\ last.op = "initialize_connection"
    /\ Len(trace) >= 3
    /\ Verbs(trace)[1] = "getServerInfo"
    /\ Verbs(trace)[2] = "createServer"
    /\ Verbs(trace)[3] = "assignVolumeToServer"

\* C9: an initialize_connection that succeeds on an instance whose VIP cache
\* was empty has queried the cluster and leaves the cache holding the
\* cluster's single VIP.
C9_LazyVipOnAttach ==
    [][(last'.op = "initialize_connection" /\ last'.exc = ""
        /\ Falsy(cluster_vip))
         => /\ VipQueries(trace') # {}
            /\ Len(array.cluster) = 1
            /\ Len(array.cluster[1].vip) = 1
            /\ cluster_vip' = array.cluster[1].vip[1].attrib.ipAddress]_vars

C9_Witness ==
    /\ last.op = "initialize_connection"
    /\ last.exc = ""
    /\ VipQueries(trace) # {}
    /\ cluster_vip = "10.0.0.5"

StatsFields ==
    {"volume_backend_name", "driver_version", "reserved_percentage",
     "storage_protocol", "vendor_name", "total_capacity_gb", "free_capacity_gb"}

\* C10: get_volume_stats(refresh=False) issues no command and returns what
\* the most recent successful refresh returned (the empty record when there
\* was none); a successful refresh leaves exactly the seven fields, each as
\* this refresh computed it.
C10_StatsCache ==
    last.op = "get_volume_stats"
      => IF last.args.refresh
           THEN last.exc = ""
                  => /\ device_stats = last.ret[1]
                     /\ DOMAIN device_stats = StatsFields
                     /\ device_stats =
                          StatsData(configuration,
                                    trace[1].ret[1].response[1].cluster[1]
                                        .attrib.spaceTotal,
                                    trace[1].ret[1].response[1].cluster[1]
                                        .attrib.unprovisionedSpace)
           ELSE /\ trace = <<>>
                /\ last.exc = ""
                /\ last.ret[1] = refreshed
                /\ device_stats = refreshed

C10_Witness ==
    /\ last.op = "get_volume_stats"
    /\ ~last.args.refresh
    /\ refreshed # EmptyDict
    /\ last.ret[1] = refreshed
    /\ last.ret[1].total_capacity_gb = 1
    /\ last.ret[1].free_capacity_gb = 0

\* The capacity attributes and the stats fields computed from them.
CapacityFields ==
    {<<"spaceTotal", "total_capacity_gb">>,
     <<"unprovisionedSpace", "free_capacity_gb">>}

\* q is the whole number of 2^30-byte units in the byte count written as
\* text: q * 2^30 <= n < (q + 1) * 2^30.
IsFloorGB(text, q) ==
    /\ q \in Nat
    /\ IF text = TenGiB THEN q = 10
       ELSE IF text = NineGiB THEN q = 9
       ELSE /\ q <= 1
            /\ q * GB <= ParseInt(text)
            /\ ParseInt(text) - q * GB < GB

\* C11: a refresh that succeeds stores total_capacity_gb = spaceTotal div 2^30
\* and free_capacity_gb = unprovisionedSpace div 2^30, whole numbers, for the
\* byte counts getClusterInfo returned (10737418240 and 9663676416 give 10
\* and 9).
C11_CapacityConversion ==
    (last.op = "get_volume_stats" /\ last.args.refresh /\ last.exc = "")
      => \A f \in CapacityFields :
            IsFloorGB(trace[1].ret[1].response[1].cluster[1].attrib[f[1]],
                      device_stats[f[2]])

C11_Witness ==
    /\ last.op = "get_volume_stats" /\ last.args.refresh /\ last.exc = ""
    /\ trace[1].ret[1].response[1].cluster[1].attrib.spaceTotal = TenGiB
    /\ device_stats.total_capacity_gb = 10
    /\ device_stats.free_capacity_gb = 9

\* C12: the createVolume command of create_volume carries size=100MB when the
\* requested size is 0 and size=<n>GB when it is n > 0; no createVolume
\* command carries a size of zero.
C12_CreateSizeEncoding ==
    /\ last.op = "create_volume"
         => /\ Len(trace) >= 1
            /\ trace[1].verb = "createVolume"
            /\ last.args.size = 0 => trace[1].args.size = "100MB"
            /\ last.args.size > 0
                 => trace[1].args.size = ToString(last.args.size) \o "GB"
    /\ \A i \in 1..Len(trace) :
          trace[i].verb = "createVolume"
            => trace[i].args.size \notin {"0", "0GB", "0MB"}

C12_Witness ==
    /\ last.op = "create_volume"
    /\ last.args.size = 0
    /\ last.exc = ""
    /\ trace[1].verb = "createVolume"
    /\ trace[1].args.size = "100MB"

\* C13: the command line handed to the transport has the verb first, then
\* one key=value token per argument in the order the arguments were supplied,
\* and, when _cliq_run_xml built it, output=XML as its last token.
C13_EncoderOrder ==
    call.fn \in {"_cliq_run", "_cliq_run_xml"}
      => /\ call.cmd_list[1] = call.verb
         /\ \A i \in 1..Len(call.supplied) :
               call.cmd_list[i + 1] =
                   call.supplied[i][1] \o "=" \o call.supplied[i][2]
         /\ Len(call.cmd_list) =
               1 + Len(call.supplied) + (IF call.fn = "_cliq_run_xml" THEN 1 ELSE 0)
         /\ call.fn = "_cliq_run_xml"
              => call.cmd_list[Len(call.cmd_list)] = "output=XML"

DomainOps ==
    {"create_volume", "extend_volume", "create_volume_from_snapshot",
     "create_snapshot", "delete_volume", "delete_snapshot",
     "initialize_connection", "terminate_connection", "get_volume_stats"}

\* C14 (as stated): every driver method issues at least one and at most two
\* round trips before it returns.
C14_OneOrTwoRoundTrips ==
    last.op \in DomainOps => Len(trace) \in 1..2

\* The number of round trips a call may make: the single-command methods
\* one, a delete one or two, a create or clone up to three, an attach up to
\* five, a refresh one and a read of the cached stats none.
RoundTripsOf(l) ==
    CASE l.op \in {"extend_volume", "create_snapshot", "terminate_connection"}
           -> {1}
      [] l.op \in DeleteOps -> 1..2
      [] l.op \in ModelUpdateOps -> 1..3
      [] l.op = "initialize_connection" -> 1..5
      [] l.op = "get_volume_stats" -> IF l.args.refresh THEN {1} ELSE {0}

Max14(l) == CHOOSE n \in RoundTripsOf(l) : \A m \in RoundTripsOf(l) : m <= n

\* C14 (amended): every driver method issues a bounded number of round trips
\* that depends on the method (RoundTripsOf); a create or clone makes its
\* third, and an attach its fifth, only to query the cluster for a VIP that
\* is not cached, and a create, clone or attach that returns normally has
\* made at least two.
C14_RoundTripBounds ==
    [][last'.op \in DomainOps
         => /\ Len(trace') \in RoundTripsOf(last')
            /\ Len(trace') = Max14(last') /\ last'.op \notin DeleteOps
                 /\ Max14(last') > 1
                  => /\ Falsy(cluster_vip)
                     /\ trace'[Len(trace')].verb = "getClusterInfo"
            /\ (last'.op \in ModelUpdateOps \cup {"initialize_connection"}
                /\ last'.exc = "")
                  => Len(trace') >= 2]_vars

C14_Witness ==
    /\ last.op = "create_volume"
    /\ last.exc = ""
    /\ Verbs(trace) = <<"createVolume", "getVolumeInfo", "getClusterInfo">>

\* The exceptions the transport and the validation raise.
RoundTripErrors == {ProcessExecutionError, VolumeBackendAPIException}

\* Round trip i of the call is the existence query of a delete, ended by a
\* process-execution error.
AbsorptionPoint(l, tr, i) ==
    /\ l.op \in DeleteOps
    /\ i = 1
    /\ tr[i].verb \in {"getVolumeInfo", "getSnapshotInfo"}
    /\ tr[i].exc = ProcessExecutionError

\* C15: every ProcessExecutionError or VolumeBackendAPIException a round trip
\* raises ends the call and reaches the caller as it is, except the
\* process-execution error of a delete's existence query; a delete whose
\* existence query raises a VolumeBackendAPIException raises it and issues no
\* delete command, and one whose delete command fails raises that error.
C15_SoleAbsorptionPoint ==
    /\ \A i \in 1..Len(trace) :
          (trace[i].exc \in RoundTripErrors /\ ~AbsorptionPoint(last, trace, i))
            => /\ i = Len(trace)
               /\ last.exc = trace[i].exc
               /\ last.msg = trace[i].msg
    /\ (last.op \in DeleteOps /\ trace[1].exc = VolumeBackendAPIException)
         => /\ last.exc = VolumeBackendAPIException
            /\ Len(trace) = 1
    /\ (last.op \in DeleteOps /\ Len(trace) = 2)
         => /\ trace[1].exc = ""
            /\ trace[2].verb \in DeleteVerbs
            /\ last.exc = trace[2].exc

C15_Witness ==
    /\ last.op = "delete_volume"
    /\ Verbs(trace) = <<"getVolumeInfo", "deleteVolume">>
    /\ trace[1].exc = ""
    /\ trace[2].exc = VolumeBackendAPIException
    /\ trace[2].msg = CommandFailed
    /\ last.exc = VolumeBackendAPIException

\* A delete whose existence query failed validation: raised, nothing deleted.
C15_WitnessExistence ==
    /\ last.op = "delete_snapshot"
    /\ Len(trace) = 1
    /\ trace[1].exc = VolumeBackendAPIException
    /\ last.exc = VolumeBackendAPIException

\* The CLIQ commands the driver uses; none of them removes a host.
DriverVerbs ==
    {"createVolume", "modifyVolume", "cloneSnapshot", "createSnapshot",
     "getVolumeInfo", "getSnapshotInfo", "deleteVolume", "deleteSnapshot",
     "getClusterInfo", "getServerInfo", "createServer", "assignVolumeToServer",
     "unassignVolumeToServer"}

\* C16: terminate_connection issues exactly one command,
\* unassignVolumeToServer with the volume name and the host name, and leaves
\* the VIP cache and the stats record as they were; no call of any method
\* issues a command that removes a host, and no host registered on the array
\* is ever removed.
C16_Detach ==
    [][/\ last'.op = "terminate_connection"
            => /\ Len(trace') = 1
               /\ trace'[1].verb = "unassignVolumeToServer"
               /\ trace'[1].args = [volumeName |-> last'.args.volume,
                                    serverName |-> last'.args.host,
                                    output |-> "XML"]
               /\ cluster_vip' = cluster_vip
               /\ device_stats' = device_stats
       /\ \A i \in 1..Len(trace') : trace'[i].verb \in DriverVerbs
       /\ array.servers \subseteq array'.servers]_vars

C16_Witness ==
    /\ last.op = "terminate_connection"
    /\ last.exc = ""
    /\ Verbs(trace) = <<"unassignVolumeToServer">>
    /\ last.args.host \in array.servers
    /\ cluster_vip = "10.0.0.5"
    /\ device_stats # EmptyDict

Flatteners == {"_cliq_get_volume_info", "_cliq_get_snapshot_info"}

\* The entity node of the tree the flattener was given.
EntityOf(c) == FindAllEntities(c.tree, c.kind)

\* C17: when the entity node of a volume or snapshot response has both a
\* status child and a permission child, the flattening succeeds, its
\* "permission." entries are the first status child's attributes, key for key
\* and value for value (as the "status." entries are), and the record has no
\* entry for an attribute of the permission child.
C17_PermissionFromStatus ==
    (/\ call.fn \in Flatteners
     /\ EntityOf(call) # <<>>
     /\ EntityOf(call)[1].status # <<>>
     /\ EntityOf(call)[1].permission # <<>>)
      => /\ call.exc = ""
         /\ DOMAIN call.val =
               {call.kind \o "." \o k : k \in DOMAIN EntityOf(call)[1].attrib}
               \cup {"status." \o k : k \in DOMAIN EntityOf(call)[1].status[1].attrib}
               \cup {"permission." \o k :
                       k \in DOMAIN EntityOf(call)[1].status[1].attrib}
         /\ \A k \in DOMAIN EntityOf(call)[1].status[1].attrib :
               /\ call.val["permission." \o k] = EntityOf(call)[1].status[1].attrib[k]
               /\ call.val["status." \o k] = EntityOf(call)[1].status[1].attrib[k]
         /\ \A k \in DOMAIN EntityOf(call)[1].permission[1].attrib :
               ("permission." \o k) \notin DOMAIN call.val

C17_Witness ==
    /\ call.fn = "_cliq_get_snapshot_info"
    /\ call.exc = ""
    /\ Len(EntityOf(call)[1].permission) = 2
    /\ Len(EntityOf(call)[1].status) = 2
    /\ call.val["permission.description"] = "OK"
    /\ call.val["permission.value"] = "2"

C19_InstanceIsolation ==
    [][call'.n # call.n
         => /\ \A j \in Instances \ {call'.self} :
                 /\ drivers'.of[j].cluster_vip = drivers.of[j].cluster_vip
                 /\ SelfDeviceStats(drivers', j) = SelfDeviceStats(drivers, j)
            /\ \A j \in Instances :
                 drivers'.of[j].device_stats = <<>>
                   => SelfDeviceStats(drivers', j) = EmptyDict
            /\ (call'.fn = "get_volume_stats" /\ call'.ret # <<>>)
                 => call'.ret = <<SelfDeviceStats(drivers', call'.self)>>]_vars

C19_Witness ==
    /\ drivers.of[1].cluster_vip = "10.0.0.5"
    /\ drivers.of[2].cluster_vip = "10.0.0.6"
    /\ drivers.of[1].device_stats # <<>>
    /\ SelfDeviceStats(drivers, 1).total_capacity_gb = 10
    /\ drivers.of[2].device_stats = <<>>
    /\ call.fn = "get_volume_stats"
    /\ call.self = 2
    /\ call.ret = <<EmptyDict>>

\* The round trip returned a response element (the array's envelope).
HasEnvelope(e) ==
    e.out # <<>> /\ e.out[1].wellFormed /\ e.out[1].response # <<>>

\* C20: every round trip hands the transport check_exit_code equal to its
\* check_cliq_result; a validated command whose process exits nonzero raises
\* ProcessExecutionError; getServerInfo, the unvalidated command of
\* initialize_connection, never raises it, whatever the exit code, and
\* createServer follows it exactly when the result code of the returned
\* response is not "0".
C20_ExitCheckFollowsValidation ==
    /\ \A i \in 1..Len(trace) :
          /\ trace[i].check_exit_code = trace[i].check
          /\ trace[i].check = (trace[i].verb # "getServerInfo")
          /\ trace[i].exit # 0
               => IF trace[i].check
                    THEN /\ trace[i].exc = ProcessExecutionError
                         /\ last.exc = ProcessExecutionError \/ i = 1
                    ELSE /\ trace[i].exc = ""
                         /\ trace[i].ret = trace[i].out
    /\ (last.op = "initialize_connection" /\ HasEnvelope(trace[1]))
         => /\ trace[1].exc = ""
            /\ (Len(trace) >= 2 /\ trace[2].verb = "createServer")
                 <=> Get(trace[1].out[1].response[1].attrib, "result") # "0"

C20_Witness ==
    /\ last.op = "initialize_connection"
    /\ Verbs(trace) = <<"getServerInfo", "createServer", "assignVolumeToServer">>
    /\ trace[1].exit # 0
    /\ trace[1].exc = ""
    /\ trace[3].exit # 0
    /\ trace[3].exc = ProcessExecutionError
    /\ last.exc = ProcessExecutionError

\* C21: a refresh that fails (the transport raises, the getClusterInfo answer
\* is malformed or refused, the cluster node is missing, a capacity is not a
\* number) leaves the cached stats record exactly as it was; the record is
\* at all times empty or complete, and get_volume_stats(refresh=False)
\* returns it.
C21_FailedRefreshKeepsStats ==
    [][/\ (last'.op = "get_volume_stats" /\ last'.args.refresh /\ last'.exc # "")
            => device_stats' = device_stats
       /\ DOMAIN device_stats' \in {{}, StatsFields}
       /\ (last'.op = "get_volume_stats" /\ ~last'.args.refresh)
            => last'.ret = <<device_stats>>]_vars

C21_Witness ==
    /\ last.op = "get_volume_stats"
    /\ last.args.refresh
    /\ last.exc = "ValueError"
    /\ DOMAIN device_stats = StatsFields
    /\ device_stats.total_capacity_gb = 10

\* A refresh ended by the transport's error, the record kept.
C21_WitnessTransport ==
    /\ last.op = "get_volume_stats"
    /\ last.args.refresh
    /\ last.exc = ProcessExecutionError
    /\ DOMAIN device_stats = StatsFields

\* C22: for every validated response that holds the entity node, with or
\* without a status child and with or without a permission child, the
\* flattening returns an Entity Record: the entity's own attributes, the
\* status entries when a status child exists, and no exception, a permission
\* child without a status child included.
C22_ChildrenIndependentlyOptional ==
    (call.fn \in Flatteners /\ EntityOf(call) # <<>>)
      => /\ call.exc = ""
         /\ \A k \in DOMAIN EntityOf(call)[1].attrib :
               call.val[call.kind \o "." \o k] = EntityOf(call)[1].attrib[k]

CreateVerbs == {"createVolume", "cloneSnapshot"}

\* C23: create_volume and create_volume_from_snapshot issue the create (or
\* clone) command first, validated; when it fails nothing else is issued, the
\* VIP cache is unchanged and the failure is the caller's; when it succeeds
\* and the volume-info query or the VIP resolution after it fails, the call
\* raises, no deleteVolume is issued and the new volume stays on the array.
C23_CreateThenDescribe ==
    [][last'.op \in ModelUpdateOps
         => /\ Len(trace') >= 1
            /\ trace'[1].verb \in CreateVerbs
            /\ trace'[1].check
            /\ \A i \in 2..Len(trace') :
                  trace'[i].verb \in {"getVolumeInfo", "getClusterInfo"}
            /\ trace'[1].exc # ""
                 => /\ Len(trace') = 1
                    /\ cluster_vip' = cluster_vip
                    /\ last'.exc = trace'[1].exc
                    /\ array' = array
            /\ (trace'[1].exc = "" /\ last'.exc # "")
                 => /\ Len(trace') >= 2
                    /\ last'.args.volume \notin array.volumes
                    /\ last'.args.volume \in array'.volumes]_vars

C23_Witness ==
    /\ last.op = "create_volume_from_snapshot"
    /\ Verbs(trace) = <<"cloneSnapshot", "getVolumeInfo", "getClusterInfo">>
    /\ last.exc = VolumeBackendAPIException
    /\ last.msg = UnexpectedVips
    /\ last.args.volume \in array.volumes

\* A create that failed validation: one command, nothing else.
C23_WitnessCreateFails ==
    /\ last.op = "create_volume"
    /\ Len(trace) = 1
    /\ trace[1].exc = VolumeBackendAPIException
    /\ cluster_vip = None

\* C24 (as stated): over attach and detach calls made one at a time against
\* an array that answers getServerInfo "0" for every registered host,
\* createServer is issued at most once for each host name, and a registered
\* host stays registered.
C24_CreateServerIssuedOnce ==
    [][/\ \A h \in Hosts : registrations'[h].issued <= 1
       /\ array.servers \subseteq array'.servers]_vars

\* C24 (amended): against such an array createServer is issued only for a
\* host the array has not registered and never again once the array has
\* accepted one, so the array accepts at most one per host name; a host is
\* registered exactly when one was accepted, and stays registered.
C24_RegisteredOnce ==
    [][/\ \A h \in Hosts :
            /\ registrations'[h].accepted <= 1
            /\ registrations'[h].issued > registrations[h].issued
                 => /\ h \notin array.servers
                    /\ registrations[h].accepted = 0
            /\ registrations'[h].accepted = 1 <=> h \in array'.servers
       /\ array.servers \subseteq array'.servers]_vars

C24_Witness ==
    /\ last.op = "initialize_connection"
    /\ last.exc = ""
    /\ registrations["host1"] = [issued |-> 2, accepted |-> 1]
    /\ "host1" \in array.servers
    /\ Verbs(trace)[2] = "createServer"

\* Both callers have found the cache empty and are querying the cluster.
C25_BothQuery ==
    \A c \in Callers : callers.frame[c].pc \in {"query", "assign"}

\* C25: however two callers interleave in _get_model_update on one instance,
\* the VIP cache changes only from empty to a value a successful single-VIP
\* cluster query returned, never goes back to empty, and every portal
\* returned uses a VIP that such a query returned.
C25_RaceKeepsVipCache ==
    [][/\ cluster_vip' # cluster_vip
            => /\ Falsy(cluster_vip)
               /\ cluster_vip' \in callers'.vips
       /\ ~Falsy(cluster_vip) => ~Falsy(cluster_vip')
       /\ \A c \in Callers :
            callers'.frame[c].pc = "returned"
              => /\ callers'.frame[c].vip \in callers'.vips
                 /\ callers'.frame[c].ret.provider_location
                      = ProviderLocation(IscsiPortal(callers'.frame[c].vip),
                                         IqnOf(callers'.frame[c].volume))]_vars

\* The body supplies exactly one of the two attach targets.
ExactlyOneTarget(a) ==
    ("instance_uuid" \in DOMAIN a) # ("host_name" \in DOMAIN a)

\* The mode the body asks for, 'rw' when it names none.
ModeOf(a) == IF "mode" \in DOMAIN a THEN a["mode"] ELSE "rw"

\* C26: _attach calls volume_api.attach exactly when the body supplies
\* exactly one of instance_uuid and host_name and the mode (default 'rw') is
\* 'rw' or 'ro'; in every other case it answers 400 and does not call it.
C26_AttachValidation ==
    call.fn = "_attach"
      => /\ call.api # <<>>
              <=> /\ ExactlyOneTarget(call.body["os-attach"])
                  /\ ModeOf(call.body["os-attach"]) \in {"rw", "ro"}
         /\ call.api = <<>>
              => /\ call.exc = "HTTPBadRequest"
                 /\ call.status = 400

\* The value is an integer: an int, a float with no fraction, or text that
\* is a decimal numeral.
IntegerValued(x) ==
    \/ x.type = "int"
    \/ x.type = "float" /\ x.tenths = 0
    \/ x.type = "unicode" /\ IntError(x.text) = ""

\* C27: _extend calls volume_api.extend only for a body whose new_size is an
\* integer value; for every body whose new_size is missing or is not one it
\* answers 400 with the must-be-an-integer message and does not call it.
C27_ExtendValidation ==
    call.fn = "_extend"
      => IF /\ "new_size" \in DOMAIN call.body["os-extend"]
            /\ IntegerValued(call.body["os-extend"]["new_size"])
           THEN call.exc = "" => call.api # <<>>
           ELSE /\ call.exc = "HTTPBadRequest"
                /\ call.status = 400
                /\ call.msg = NotAnInteger
                /\ call.api = <<>>

====
